---- MODULE Spec2Model ----
(***************************************************************************)
(* A model of rust-multiaddr: the protocol registry (src/src/protocol.rs)  *)
(* and the Multiaddr codec (src/src/lib.rs).                               *)
(*                                                                         *)
(* Texts are sequences of one-character strings, byte buffers are          *)
(* sequences of integers in 0..255.  A call of Multiaddr::from_str or      *)
(* Multiaddr::from_bytes is run loop iteration by loop iteration; the      *)
(* same iteration operators, closed under recursion, give the calls as     *)
(* pure functions.                                                         *)
(***************************************************************************)
EXTENDS Integers, Sequences, FiniteSets, TLC

VARIABLES
    s,      \* the text handed to Multiaddr::from_str
    pc,     \* where the running call is
    segs,   \* parse_str_to_bytes: the slice `segs` still to walk
    ma,     \* parse_str_to_bytes: the output buffer `ma`
    m,      \* what Multiaddr::from_str returned
    input,  \* the buffer handed to Multiaddr::from_bytes
    bytes,  \* verify_multiaddr_bytes: the slice `bytes` still to read
    m2,     \* what Multiaddr::from_bytes returned
    prev,   \* the error of the call before this one (SpecErr)
    rq,     \* a registry query (SpecReg)
    rr      \* its answer (SpecReg)

vars == <<s, pc, segs, ma, m, input, bytes, m2, prev, rq, rr>>

(***************************************************************************)
(* Bounds of the model.                                                    *)
(***************************************************************************)
MaxSegs == 3

MaxTrail == 2

MaxBuf == 5

MaxCode == 65535

(***************************************************************************)
(* Result values.                                                          *)
(***************************************************************************)
Ok(v) == [ok |-> TRUE, val |-> v]

Err == [ok |-> FALSE, val |-> "none"]

NoResult == [tag |-> "None", kind |-> "", msg |-> "", bytes |-> <<>>]

OkResult(b) == [tag |-> "Ok", kind |-> "", msg |-> "", bytes |-> b]

ErrResult(k, t) == [tag |-> "Err", kind |-> k, msg |-> t, bytes |-> <<>>]

PanicResult(t) == [tag |-> "Panic", kind |-> "", msg |-> t, bytes |-> <<>>]

(***************************************************************************)
(* The protocol registry, src/src/protocol.rs.  The four tables are kept   *)
(* as the four separately written matches of the source.                   *)
(***************************************************************************)
Protocol ==
    {"IP4", "TCP", "UDP", "DCCP", "IP6", "SCTP",
     "UTP", "UDT", "IPFS", "HTTP", "HTTPS", "ONION"}

U16From(p) ==
    CASE p = "IP4"   -> 4
      [] p = "TCP"   -> 6
      [] p = "UDP"   -> 17
      [] p = "DCCP"  -> 33
      [] p = "IP6"   -> 41
      [] p = "SCTP"  -> 132
      [] p = "UTP"   -> 301
      [] p = "UDT"   -> 302
      [] p = "IPFS"  -> 421
      [] p = "HTTP"  -> 480
      [] p = "HTTPS" -> 443
      [] p = "ONION" -> 444

FromStr(w) ==
    CASE w = <<"i", "p", "4">>           -> Ok("IP4")
      [] w = <<"t", "c", "p">>           -> Ok("TCP")
      [] w = <<"u", "d", "p">>           -> Ok("UDP")
      [] w = <<"d", "c", "c", "p">>      -> Ok("DCCP")
      [] w = <<"i", "p", "6">>           -> Ok("IP6")
      [] w = <<"s", "c", "t", "p">>      -> Ok("SCTP")
      [] w = <<"u", "t", "p">>           -> Ok("UTP")
      [] w = <<"u", "d", "t">>           -> Ok("UDT")
      [] w = <<"i", "p", "f", "s">>      -> Ok("IPFS")
      [] w = <<"h", "t", "t", "p">>      -> Ok("HTTP")
      [] w = <<"h", "t", "t", "p", "s">> -> Ok("HTTPS")
      [] w = <<"o", "n", "i", "o", "n">> -> Ok("ONION")
      [] OTHER                           -> Err

\* from_code with the codes of http and https, which the tables list out
\* of numeric order, taken for one another.
FromCodeSwapped(c) ==
    CASE c = 4   -> Ok("IP4")
      [] c = 6   -> Ok("TCP")
      [] c = 17  -> Ok("UDP")
      [] c = 33  -> Ok("DCCP")
      [] c = 41  -> Ok("IP6")
      [] c = 132 -> Ok("SCTP")
      [] c = 301 -> Ok("UTP")
      [] c = 302 -> Ok("UDT")
      [] c = 421 -> Ok("IPFS")
      [] c = 443 -> Ok("HTTP")
      [] c = 480 -> Ok("HTTPS")
      [] c = 444 -> Ok("ONION")
      [] OTHER   -> Err

FromCode(c) ==
    CASE c = 4   -> Ok("IP4")
      [] c = 6   -> Ok("TCP")
      [] c = 17  -> Ok("UDP")
      [] c = 33  -> Ok("DCCP")
      [] c = 41  -> Ok("IP6")
      [] c = 132 -> Ok("SCTP")
      [] c = 301 -> Ok("UTP")
      [] c = 302 -> Ok("UDT")
      [] c = 421 -> Ok("IPFS")
      [] c = 480 -> Ok("HTTP")
      [] c = 443 -> Ok("HTTPS")
      [] c = 444 -> Ok("ONION")
      [] OTHER   -> Err

ToStr(p) ==
    CASE p = "IP4"   -> <<"i", "p", "4">>
      [] p = "TCP"   -> <<"t", "c", "p">>
      [] p = "UDP"   -> <<"u", "d", "p">>
      [] p = "DCCP"  -> <<"d", "c", "c", "p">>
      [] p = "IP6"   -> <<"i", "p", "6">>
      [] p = "SCTP"  -> <<"s", "c", "t", "p">>
      [] p = "UTP"   -> <<"u", "t", "p">>
      [] p = "UDT"   -> <<"u", "d", "t">>
      [] p = "IPFS"  -> <<"i", "p", "f", "s">>
      [] p = "HTTP"  -> <<"h", "t", "t", "p">>
      [] p = "HTTPS" -> <<"h", "t", "t", "p", "s">>
      [] p = "ONION" -> <<"o", "n", "i", "o", "n">>

Fixed(n) == [kind |-> "Fixed", n |-> n]

Variable == [kind |-> "Variable", n |-> 0]

\* Size with the widths counted in bits, as the comment above the type in
\* the source has it.
SizeInBits(p) ==
    CASE p = "IP4"   -> Fixed(32)
      [] p = "TCP"   -> Fixed(16)
      [] p = "UDP"   -> Fixed(16)
      [] p = "DCCP"  -> Fixed(16)
      [] p = "IP6"   -> Fixed(128)
      [] p = "SCTP"  -> Fixed(16)
      [] p = "UTP"   -> Fixed(0)
      [] p = "UDT"   -> Fixed(0)
      [] p = "IPFS"  -> Variable
      [] p = "HTTP"  -> Fixed(0)
      [] p = "HTTPS" -> Fixed(0)
      [] p = "ONION" -> Fixed(80)

Size(p) ==
    CASE p = "IP4"   -> Fixed(4)
      [] p = "TCP"   -> Fixed(2)
      [] p = "UDP"   -> Fixed(2)
      [] p = "DCCP"  -> Fixed(2)
      [] p = "IP6"   -> Fixed(16)
      [] p = "SCTP"  -> Fixed(2)
      [] p = "UTP"   -> Fixed(0)
      [] p = "UDT"   -> Fixed(0)
      [] p = "IPFS"  -> Variable
      [] p = "HTTP"  -> Fixed(0)
      [] p = "HTTPS" -> Fixed(0)
      [] p = "ONION" -> Fixed(10)

(***************************************************************************)
(* Unsigned LEB128 over 32-bit values: the varint crate, as called at      *)
(* lib.rs:63, 127, 161 (write) and lib.rs:190, 200 (read).  A value read   *)
(* is kept as its low and high 16-bit halves, value = hi * 65536 + lo, so  *)
(* that the `as u16` of lib.rs:192 is the low half.  A read fails at the   *)
(* end of the input and on a varint that does not fit 32 bits; the bytes   *)
(* it has read are consumed either way.                                    *)
(***************************************************************************)
RECURSIVE WriteUnsignedVarint32(_)
WriteUnsignedVarint32(v) ==
    IF v < 128
    THEN <<v>>
    ELSE <<(v % 128) + 128>> \o WriteUnsignedVarint32(v \div 128)

RECURSIVE VarintGroups(_, _)
VarintGroups(b, k) ==
    IF b = <<>> \/ k = 5
    THEN [ok |-> FALSE, g |-> <<>>, rest |-> b]
    ELSE IF b[1] < 128
    THEN [ok |-> TRUE, g |-> <<b[1]>>, rest |-> Tail(b)]
    ELSE LET r == VarintGroups(Tail(b), k + 1)
         IN  [ok |-> r.ok, g |-> <<b[1] % 128>> \o r.g, rest |-> r.rest]

ReadUnsignedVarint32(b) ==
    LET r    == VarintGroups(b, 0)
        G(i) == IF i <= Len(r.g) THEN r.g[i] ELSE 0
    IN  IF ~r.ok \/ G(5) >= 16
        THEN [ok |-> FALSE, lo |-> 0, hi |-> 0, rest |-> r.rest]
        ELSE [ok   |-> TRUE,
              lo   |-> G(1) + 128 * G(2) + 16384 * (G(3) % 4),
              hi   |-> (G(3) \div 4) + 32 * G(4) + 4096 * G(5),
              rest |-> r.rest]

(***************************************************************************)
(* Texts.                                                                  *)
(***************************************************************************)
Digits == <<"0", "1", "2", "3", "4", "5", "6", "7", "8", "9">>

HexDigits ==
    <<"0", "1", "2", "3", "4", "5", "6", "7", "8", "9",
      "a", "b", "c", "d", "e", "f">>

Base58Alphabet ==
    <<"1", "2", "3", "4", "5", "6", "7", "8", "9",
      "A", "B", "C", "D", "E", "F", "G", "H", "J", "K", "L", "M", "N",
      "P", "Q", "R", "S", "T", "U", "V", "W", "X", "Y", "Z",
      "a", "b", "c", "d", "e", "f", "g", "h", "i", "j", "k", "m",
      "n", "o", "p", "q", "r", "s", "t", "u", "v", "w", "x", "y", "z">>

\* The value of character c in the alphabet a, or -1.
DigitOf(c, a) ==
    IF \E i \in 1..Len(a) : a[i] = c
    THEN (CHOOSE i \in 1..Len(a) : a[i] = c) - 1
    ELSE -1

\* A trim that removes one trailing occurrence of c and no more.
TrimRightOnce(t, c) ==
    IF t # <<>> /\ t[Len(t)] = c THEN SubSeq(t, 1, Len(t) - 1) ELSE t

\* str::trim_right_matches: every trailing occurrence of c is removed.
RECURSIVE TrimRightMatches(_, _)
TrimRightMatches(t, c) ==
    IF t # <<>> /\ t[Len(t)] = c
    THEN TrimRightMatches(SubSeq(t, 1, Len(t) - 1), c)
    ELSE t

\* str::split: the pieces between the occurrences of c, empty ones kept.
RECURSIVE Split(_, _)
Split(t, c) ==
    IF \E i \in 1..Len(t) : t[i] = c
    THEN LET i == CHOOSE i \in 1..Len(t) :
                      t[i] = c /\ \A j \in 1..(i - 1) : t[j] # c
         IN  <<SubSeq(t, 1, i - 1)>> \o Split(SubSeq(t, i + 1, Len(t)), c)
    ELSE <<t>>

\* A decimal or hexadecimal numeral of at most `width` digits, read to its
\* value; -1 when it is empty, too long or holds another character.
RECURSIVE NumeralValue(_, _, _)
NumeralValue(t, a, acc) ==
    IF t = <<>>
    THEN acc
    ELSE IF DigitOf(t[1], a) < 0
    THEN -1
    ELSE NumeralValue(Tail(t), a, acc * Len(a) + DigitOf(t[1], a))

Numeral(t, a, width) ==
    IF t = <<>> \/ Len(t) > width THEN -1 ELSE NumeralValue(t, a, 0)

\* str::parse::<u16>: a non-empty run of decimal digits whose value, checked
\* digit by digit, stays within 16 bits.
RECURSIVE ParseU16Digits(_, _)
ParseU16Digits(t, acc) ==
    IF t = <<>>
    THEN Ok(acc)
    ELSE LET d == DigitOf(t[1], Digits)
         IN  IF d < 0 \/ acc * 10 + d > 65535
             THEN Err
             ELSE ParseU16Digits(Tail(t), acc * 10 + d)

ParseU16(t) == IF t = <<>> THEN Err ELSE ParseU16Digits(t, 0)

\* Ipv4Addr::from_str: four decimal octets separated by '.'.
Ipv4FromStr(t) ==
    LET parts == Split(t, ".")
        oct(i) == Numeral(parts[i], Digits, 3)
    IN  IF Len(parts) = 4 /\ \A i \in 1..4 : oct(i) >= 0 /\ oct(i) <= 255
        THEN Ok([i \in 1..4 |-> oct(i)])
        ELSE Err

\* Ipv6Addr::from_str: eight groups of one to four hexadecimal digits
\* separated by ':', a single "::" standing for the missing zero groups.
\* (The form with an embedded dotted quad is left out.)
Ipv6FromStr(t) ==
    LET dc      == {i \in 1..(Len(t) - 1) : t[i] = ":" /\ t[i + 1] = ":"}
        groups(u) == IF u = <<>> THEN <<>> ELSE Split(u, ":")
        good(g) == \A i \in 1..Len(g) : Numeral(g[i], HexDigits, 4) >= 0
        val(g)  == [i \in 1..Len(g) |-> Numeral(g[i], HexDigits, 4)]
    IN  IF dc = {}
        THEN LET g == groups(t)
             IN  IF Len(g) = 8 /\ good(g) THEN Ok(val(g)) ELSE Err
        ELSE IF Cardinality(dc) = 1
        THEN LET i == CHOOSE i \in dc : TRUE
                 h == groups(SubSeq(t, 1, i - 1))
                 l == groups(SubSeq(t, i + 2, Len(t)))
             IN  IF Len(h) + Len(l) <= 7 /\ good(h) /\ good(l)
                 THEN Ok(val(h) \o [j \in 1..(8 - Len(h) - Len(l)) |-> 0]
                                \o val(l))
                 ELSE Err
        ELSE Err

\* A base-58 numeral to bytes.  The number is kept least significant byte
\* first while the digits are folded in; every leading '1' is a zero byte.
RECURSIVE MulAdd58(_, _)
MulAdd58(n, carry) ==
    IF n = <<>>
    THEN IF carry = 0
         THEN <<>>
         ELSE <<carry % 256>> \o MulAdd58(<<>>, carry \div 256)
    ELSE LET v == n[1] * 58 + carry
         IN  <<v % 256>> \o MulAdd58(Tail(n), v \div 256)

RECURSIVE Base58Fold(_, _)
Base58Fold(t, n) ==
    IF t = <<>>
    THEN n
    ELSE Base58Fold(Tail(t), MulAdd58(n, DigitOf(t[1], Base58Alphabet)))

RECURSIVE LeadingOnes(_)
LeadingOnes(t) ==
    IF t # <<>> /\ t[1] = "1" THEN 1 + LeadingOnes(Tail(t)) ELSE 0

Base58Decode(t) ==
    IF \E i \in 1..Len(t) : DigitOf(t[i], Base58Alphabet) < 0
    THEN Err
    ELSE LET n == Base58Fold(t, <<>>)
         IN  Ok([i \in 1..LeadingOnes(t) |-> 0]
                \o [i \in 1..Len(n) |-> n[Len(n) + 1 - i]])

\* Multihash::from_base58_str: the decoded bytes are a hash-function id, a
\* digest length and a digest of exactly that length.
MultihashCodes == {17, 18, 19, 20, 64, 65}

MultihashFromBase58Str(t) ==
    LET d == Base58Decode(t)
    IN  IF d.ok /\ Len(d.val) >= 2
        THEN IF d.val[1] \in MultihashCodes /\ d.val[2] = Len(d.val) - 2
             THEN d
             ELSE Err
        ELSE Err

(***************************************************************************)
(* The codec, src/src/lib.rs.                                              *)
(***************************************************************************)
\* write_u16::<BigEndian>
WriteU16BigEndian(v) == <<v \div 256, v % 256>>

WriteIp4ToVec(ip) == ip

RECURSIVE WriteIp6ToVec(_)
WriteIp6ToVec(ip) ==
    IF ip = <<>>
    THEN <<>>
    ELSE WriteU16BigEndian(ip[1]) \o WriteIp6ToVec(Tail(ip))

AddressStringToBytes(t, proto) ==
    CASE proto = "IP4" ->
            LET ip == Ipv4FromStr(t)
            IN  IF ip.ok
                THEN OkResult(WriteIp4ToVec(ip.val))
                ELSE ErrResult("", "Error parsing ip4 address")
      [] proto = "IP6" ->
            LET ip == Ipv6FromStr(t)
            IN  IF ip.ok
                THEN OkResult(WriteIp6ToVec(ip.val))
                ELSE ErrResult("", "Error parsing ip6 address")
      [] proto = "IPFS" ->
            LET h == MultihashFromBase58Str(t)
            IN  IF h.ok
                THEN OkResult(WriteUnsignedVarint32(Len(h.val)) \o h.val)
                ELSE ErrResult("", "Error parsing multihash")
      [] proto \in {"TCP", "UDP", "SCTP", "DCCP"} ->
            LET port == ParseU16(t)
            IN  IF port.ok
                THEN OkResult(WriteU16BigEndian(port.val))
                ELSE ErrResult("", "Error parsing tcp/udp/sctp/dccp port number")
      [] proto = "ONION" -> PanicResult("not yet implemented")
      [] OTHER -> PanicResult("unreachable")

\* ParseBegin without the test of the first piece.
ParseBeginUnchecked(t) ==
    LET segs_vec == Split(TrimRightMatches(t, "/"), "/")
    IN  [segs |-> Tail(segs_vec), ma |-> <<>>, ret |-> NoResult]

\* ParseBegin with InvalidCode for Other, the change the TODO at lib.rs:99
\* considers.
ParseBeginInvalidCode(t) ==
    LET segs_vec == Split(TrimRightMatches(t, "/"), "/")
    IN  IF segs_vec[1] # <<>>
        THEN [segs |-> <<>>, ma |-> <<>>,
              ret  |-> ErrResult("InvalidCode",
                                 "Multiaddr must begin with '/'")]
        ELSE [segs |-> Tail(segs_vec), ma |-> <<>>, ret |-> NoResult]

\* lib.rs:95-103: the text is trimmed and split, and its first piece must be
\* empty.  What is returned is the state the loop starts in, or the error.
ParseBegin(t) ==
    LET segs_vec == Split(TrimRightMatches(t, "/"), "/")
    IN  IF segs_vec[1] # <<>>
        THEN [segs |-> <<>>, ma |-> <<>>,
              ret  |-> ErrResult("Other", "Multiaddr must begin with '/'")]
        ELSE [segs |-> Tail(segs_vec), ma |-> <<>>, ret |-> NoResult]

\* ParseIter without the `continue` of lib.rs:113-115: a zero-width protocol
\* goes on to look for an address like any other.
ParseIterNoContinue(st) ==
    LET p == FromStr(st.segs[1])
    IN  IF ~p.ok
        THEN [st EXCEPT !.ret = ErrResult("InvalidCode", "Invalid protocol")]
        ELSE LET segs1 == Tail(st.segs)
             IN  IF Len(segs1) = 0
                 THEN [st EXCEPT !.segs = segs1,
                                 !.ret = ErrResult("InvalidAddress",
                                             "Address not found for protocol")]
                 ELSE LET a == AddressStringToBytes(segs1[1], p.val)
                      IN  IF a.tag = "Panic"
                          THEN [st EXCEPT !.segs = segs1, !.ret = a]
                          ELSE IF a.tag = "Err"
                          THEN [st EXCEPT !.segs = segs1,
                                          !.ret = ErrResult("InvalidAddress",
                                                            a.msg)]
                          ELSE [st EXCEPT
                                  !.segs = Tail(segs1),
                                  !.ma = @ \o WriteUnsignedVarint32(
                                                  U16From(p.val))
                                           \o a.bytes]

\* lib.rs:107-130: one iteration of the loop, entered with segs not empty.
ParseIter(st) ==
    LET p == FromStr(st.segs[1])
    IN  IF ~p.ok
        THEN [st EXCEPT !.ret = ErrResult("InvalidCode", "Invalid protocol")]
        ELSE LET segs1 == Tail(st.segs)
             IN  IF Size(p.val) = Fixed(0)
                 THEN [st EXCEPT !.segs = segs1]
                 ELSE IF Len(segs1) = 0
                 THEN [st EXCEPT !.segs = segs1,
                                 !.ret = ErrResult("InvalidAddress",
                                             "Address not found for protocol")]
                 ELSE LET a == AddressStringToBytes(segs1[1], p.val)
                      IN  IF a.tag = "Panic"
                          THEN [st EXCEPT !.segs = segs1, !.ret = a]
                          ELSE IF a.tag = "Err"
                          THEN [st EXCEPT !.segs = segs1,
                                          !.ret = ErrResult("InvalidAddress",
                                                            a.msg)]
                          ELSE [st EXCEPT
                                  !.segs = Tail(segs1),
                                  !.ma = @ \o WriteUnsignedVarint32(
                                                  U16From(p.val))
                                           \o a.bytes]

\* lib.rs:106, 133: the loop runs until segs is empty, and the buffer is
\* returned.
RECURSIVE ParseLoop(_)
ParseLoop(st) ==
    IF st.ret.tag # "None"
    THEN st.ret
    ELSE IF Len(st.segs) > 0
    THEN ParseLoop(ParseIter(st))
    ELSE OkResult(st.ma)

\* parse_str_to_bytes, and Multiaddr::from_str around it (lib.rs:32-35),
\* as a function of the text.
ParseStrToBytes(t) == ParseLoop(ParseBegin(t))

\* VerifyIter without the test of lib.rs:206-212, the slice taken up to the
\* end of what is left.
VerifyIterClamped(b) ==
    LET c == ReadUnsignedVarint32(b)
    IN  IF ~c.ok
        THEN [rest |-> c.rest,
              ret  |-> ErrResult("InvalidCode", "Error reading varint")]
        ELSE LET code == c.lo
                 proto_type == FromCode(code)
             IN  IF ~proto_type.ok
                 THEN [rest |-> c.rest,
                       ret  |-> ErrResult("InvalidCode",
                                          "Invalid protocol type code")]
                 ELSE LET sz == Size(proto_type.val)
                      IN  IF sz = Fixed(0)
                          THEN [rest |-> c.rest, ret |-> NoResult]
                          ELSE LET l == IF sz.kind = "Fixed"
                                        THEN [ok |-> TRUE, lo |-> sz.n,
                                              hi |-> 0, rest |-> c.rest]
                                        ELSE ReadUnsignedVarint32(c.rest)
                               IN  IF ~l.ok
                                   THEN [rest |-> l.rest,
                                         ret  |-> ErrResult("InvalidAddress",
                                                     "Error reading varint")]
                                   ELSE IF l.hi > 0
                                   THEN [rest |-> <<>>, ret |-> NoResult]
                                   ELSE [rest |-> SubSeq(l.rest, l.lo + 1,
                                                         Len(l.rest)),
                                         ret  |-> NoResult]

\* lib.rs:190-214: one iteration of the loop of verify_multiaddr_bytes,
\* entered with b not empty.  What is returned is the slice left, or the
\* error.
VerifyIter(b) ==
    LET c == ReadUnsignedVarint32(b)
    IN  IF ~c.ok
        THEN [rest |-> c.rest,
              ret  |-> ErrResult("InvalidCode", "Error reading varint")]
        ELSE LET code == c.lo
                 proto_type == FromCode(code)
             IN  IF ~proto_type.ok
                 THEN [rest |-> c.rest,
                       ret  |-> ErrResult("InvalidCode",
                                          "Invalid protocol type code")]
                 ELSE LET sz == Size(proto_type.val)
                      IN  IF sz = Fixed(0)
                          THEN [rest |-> c.rest, ret |-> NoResult]
                          ELSE LET l == IF sz.kind = "Fixed"
                                        THEN [ok |-> TRUE, lo |-> sz.n,
                                              hi |-> 0, rest |-> c.rest]
                                        ELSE ReadUnsignedVarint32(c.rest)
                               IN  IF ~l.ok
                                   THEN [rest |-> l.rest,
                                         ret  |-> ErrResult("InvalidAddress",
                                                     "Error reading varint")]
                                   ELSE IF l.hi > 0 \/ Len(l.rest) < l.lo
                                   THEN [rest |-> l.rest,
                                         ret  |-> ErrResult("InvalidAddress",
                                                     "Unexpected end of bytes")]
                                   ELSE [rest |-> SubSeq(l.rest, l.lo + 1,
                                                         Len(l.rest)),
                                         ret  |-> NoResult]

(***************************************************************************)
(* The inputs.  A text is a path of at most MaxSegs segments, each a       *)
(* registry name or an address value (the empty segment among them, for    *)
(* doubled and trailing slashes), with or without its leading '/'.  A      *)
(* buffer is at most MaxBuf bytes of an alphabet that holds one- and       *)
(* two-byte codes, continuation bytes and small lengths.                   *)
(***************************************************************************)
Names == {ToStr(p) : p \in Protocol}

TestHash ==
    <<"Q", "m", "c", "g", "p", "s", "y", "W", "g", "H", "8", "Y", "8", "a",
      "j", "J", "z", "1", "C", "u", "7", "2", "K", "n", "S", "5", "u", "o",
      "2", "A", "a", "2", "L", "p", "z", "U", "7", "k", "i", "n", "S", "u",
      "p", "N", "K", "C">>

Values ==
    {<<"1", "2", "3", "4">>,
     <<"6", "5", "5", "3", "6">>,
     <<"1", ".", "2", ".", "3", ".", "4">>,
     <<":", ":", "1">>,
     TestHash,
     <<"x", ":", "8", "0">>,
     <<>>}

Words == Names \cup Values

SegSeqs == UNION {[1..k -> Words] : k \in 0..MaxSegs}

RECURSIVE Path(_)
Path(q) == IF q = <<>> THEN <<>> ELSE <<"/">> \o q[1] \o Path(Tail(q))

TextOf(q, lead) == IF lead \/ q = <<>> THEN Path(q) ELSE Tail(Path(q))

ByteAlphabet == {0, 2, 3, 4, 6, 130, 165, 173}

Bufs == UNION {[1..k -> ByteAlphabet] : k \in 0..MaxBuf}

NoOutcome == [kind |-> "", msg |-> ""]

NoQuery == [op |-> "none", arg |-> 0]

NoAnswer == [answered |-> FALSE]

(***************************************************************************)
(* Multiaddr::from_str (lib.rs:32-35) running parse_str_to_bytes.          *)
(***************************************************************************)
ParseStart ==
    /\ pc = "from_str"
    /\ LET st == ParseBegin(s)
       IN  /\ segs' = st.segs
           /\ ma' = st.ma
           /\ IF st.ret.tag = "None"
              THEN pc' = "parse_loop" /\ m' = m
              ELSE pc' = "returned" /\ m' = st.ret
    /\ UNCHANGED <<s, input, bytes, m2, prev, rq, rr>>

ParseStep ==
    /\ pc = "parse_loop"
    /\ Len(segs) > 0
    /\ LET st == ParseIter([segs |-> segs, ma |-> ma, ret |-> NoResult])
       IN  /\ segs' = st.segs
           /\ ma' = st.ma
           /\ IF st.ret.tag = "None"
              THEN pc' = "parse_loop" /\ m' = m
              ELSE pc' = "returned" /\ m' = st.ret
    /\ UNCHANGED <<s, input, bytes, m2, prev, rq, rr>>

ParseReturn ==
    /\ pc = "parse_loop"
    /\ Len(segs) = 0
    /\ m' = OkResult(ma)
    /\ pc' = "returned"
    /\ UNCHANGED <<s, segs, ma, input, bytes, m2, prev, rq, rr>>

(***************************************************************************)
(* Multiaddr::from_bytes (lib.rs:48-51) running verify_multiaddr_bytes,    *)
(* here on the bytes of the Multiaddr that from_str returned.              *)
(***************************************************************************)
FromBytesCall ==
    /\ pc = "returned"
    /\ m.tag = "Ok"
    /\ input' = m.bytes
    /\ bytes' = m.bytes
    /\ pc' = "verify_loop"
    /\ UNCHANGED <<s, segs, ma, m, m2, prev, rq, rr>>

VerifyStep ==
    /\ pc = "verify_loop"
    /\ Len(bytes) > 0
    /\ LET r == VerifyIter(bytes)
       IN  /\ bytes' = r.rest
           /\ IF r.ret.tag = "None"
              THEN pc' = "verify_loop" /\ m2' = m2
              ELSE pc' = "done" /\ m2' = r.ret
    /\ UNCHANGED <<s, segs, ma, m, input, prev, rq, rr>>

VerifyReturn ==
    /\ pc = "verify_loop"
    /\ Len(bytes) = 0
    /\ m2' = OkResult(input)
    /\ pc' = "done"
    /\ UNCHANGED <<s, segs, ma, m, input, bytes, prev, rq, rr>>

(***************************************************************************)
(* Spec: every text is parsed, and what is accepted is validated again.    *)
(***************************************************************************)
Init ==
    /\ \E q \in SegSeqs, lead \in BOOLEAN : s = TextOf(q, lead)
    /\ pc = "from_str"
    /\ segs = <<>>
    /\ ma = <<>>
    /\ m = NoResult
    /\ input = <<>>
    /\ bytes = <<>>
    /\ m2 = NoResult
    /\ prev = NoOutcome
    /\ rq = NoQuery
    /\ rr = NoAnswer

Next ==
    \/ ParseStart
    \/ ParseStep
    \/ ParseReturn
    \/ FromBytesCall
    \/ VerifyStep
    \/ VerifyReturn

Spec == Init /\ [][Next]_vars

(***************************************************************************)
(* SpecBytes: every buffer is validated.                                   *)
(***************************************************************************)
InitBytes ==
    /\ s = <<>>
    /\ pc = "verify_loop"
    /\ segs = <<>>
    /\ ma = <<>>
    /\ m = NoResult
    /\ input \in Bufs
    /\ bytes = input
    /\ m2 = NoResult
    /\ prev = NoOutcome
    /\ rq = NoQuery
    /\ rr = NoAnswer

NextBytes ==
    \/ VerifyStep
    \/ VerifyReturn

SpecBytes == InitBytes /\ [][NextBytes]_vars

(***************************************************************************)
(* SpecErr: a caller makes one call after another, of from_str on one of   *)
(* ErrTexts or of from_bytes on one of ErrBufs, and keeps the last error   *)
(* it was given.  A call that panicked is followed by none.                *)
(***************************************************************************)
ErrTexts ==
    {<<>>,
     TextOf(<<ToStr("IP4"), <<"1", ".", "2", ".", "3", ".", "4">>>>, FALSE),
     Path(<<<<"x", ":", "8", "0">>>>),
     Path(<<ToStr("TCP")>>),
     Path(<<ToStr("TCP"), <<"1", "2", "3", "4">>>>),
     Path(<<ToStr("TCP"), <<"6", "5", "5", "3", "6">>>>),
     Path(<<ToStr("IP4"), <<":", ":", "1">>>>),
     Path(<<ToStr("IP6"), ToStr("IP6")>>),
     Path(<<ToStr("IPFS"), ToStr("TCP")>>),
     Path(<<ToStr("ONION"), <<"x", ":", "8", "0">>>>)}

ErrBufs ==
    {<<>>, <<2>>, <<130>>, <<6, 0, 0>>, <<4, 2, 3>>,
     <<165, 3>>, <<165, 3, 130>>, <<165, 3, 4, 0>>}

LastResult == IF pc = "done" THEN m2 ELSE m

CallEnded == pc \in {"returned", "done"} /\ LastResult.tag \in {"Ok", "Err"}

Remembered ==
    IF LastResult.tag = "Err"
    THEN [kind |-> LastResult.kind, msg |-> LastResult.msg]
    ELSE prev

NewFromStr ==
    /\ CallEnded
    /\ prev' = Remembered
    /\ s' \in ErrTexts
    /\ pc' = "from_str"
    /\ segs' = <<>>
    /\ ma' = <<>>
    /\ m' = NoResult
    /\ input' = <<>>
    /\ bytes' = <<>>
    /\ m2' = NoResult
    /\ UNCHANGED <<rq, rr>>

NewFromBytes ==
    /\ CallEnded
    /\ prev' = Remembered
    /\ s' = <<>>
    /\ pc' = "verify_loop"
    /\ segs' = <<>>
    /\ ma' = <<>>
    /\ m' = NoResult
    /\ input' \in ErrBufs
    /\ bytes' = input'
    /\ m2' = NoResult
    /\ UNCHANGED <<rq, rr>>

InitErr ==
    /\ s \in ErrTexts
    /\ pc = "from_str"
    /\ segs = <<>>
    /\ ma = <<>>
    /\ m = NoResult
    /\ input = <<>>
    /\ bytes = <<>>
    /\ m2 = NoResult
    /\ prev = NoOutcome
    /\ rq = NoQuery
    /\ rr = NoAnswer

NextErr ==
    \/ ParseStart
    \/ ParseStep
    \/ ParseReturn
    \/ VerifyStep
    \/ VerifyReturn
    \/ NewFromStr
    \/ NewFromBytes

SpecErr == InitErr /\ [][NextErr]_vars

(***************************************************************************)
(* SpecReg: the registry is asked for a name, for a code, or about a tag.  *)
(***************************************************************************)
Answer(v) == [answered |-> TRUE, val |-> v]

LookupByName ==
    /\ rq.op = "from_str"
    /\ ~rr.answered
    /\ rr' = Answer(FromStr(rq.arg))
    /\ UNCHANGED <<s, pc, segs, ma, m, input, bytes, m2, prev, rq>>

LookupByCode ==
    /\ rq.op = "from_code"
    /\ ~rr.answered
    /\ rr' = Answer(FromCode(rq.arg))
    /\ UNCHANGED <<s, pc, segs, ma, m, input, bytes, m2, prev, rq>>

DescribeTag ==
    /\ rq.op = "tag"
    /\ ~rr.answered
    /\ rr' = Answer([name   |-> ToStr(rq.arg),
                     byname |-> FromStr(ToStr(rq.arg)),
                     code   |-> U16From(rq.arg),
                     bycode |-> FromCode(U16From(rq.arg)),
                     size   |-> Size(rq.arg)])
    /\ UNCHANGED <<s, pc, segs, ma, m, input, bytes, m2, prev, rq>>

InitReg ==
    /\ s = <<>>
    /\ pc = "registry"
    /\ segs = <<>>
    /\ ma = <<>>
    /\ m = NoResult
    /\ input = <<>>
    /\ bytes = <<>>
    /\ m2 = NoResult
    /\ prev = NoOutcome
    /\ \/ \E w \in Words : rq = [op |-> "from_str", arg |-> w]
       \/ \E c \in 0..MaxCode : rq = [op |-> "from_code", arg |-> c]
       \/ \E p \in Protocol : rq = [op |-> "tag", arg |-> p]
    /\ rr = NoAnswer

NextReg ==
    \/ LookupByName
    \/ LookupByCode
    \/ DescribeTag

SpecReg == InitReg /\ [][NextReg]_vars

(***************************************************************************)
(* Properties of Multiaddr::from_str, checked under Spec.                  *)
(***************************************************************************)
ZeroWidth == {"UTP", "UDT", "HTTP", "HTTPS"}

\* The segments of a text as parse_str_to_bytes walks them.
SegmentsOf(t) == Tail(Split(TrimRightMatches(t, "/"), "/"))

NoTrailingSlash(t) == t = <<>> \/ t[Len(t)] # "/"

Slashes(k) == [i \in 1..k |-> "/"]

\* C1: round trip.  Whenever from_str accepted a text and from_bytes has
\* then run on the bytes of the Multiaddr it returned, from_bytes returned
\* Ok and the Multiaddr it holds has the very same bytes.
C1_RoundTrip ==
    (m.tag = "Ok" /\ pc = "done") => (m2.tag = "Ok" /\ m2.bytes = m.bytes)

\* C1 happens: the path /ipfs/<hash>, with its length-prefixed value, was
\* accepted and validated again.
C1_Witness ==
    /\ pc = "done"
    /\ s = Path(<<ToStr("IPFS"), TestHash>>)
    /\ m2.tag = "Ok"
    /\ Len(m2.bytes) = 37

\* The buffer the claim C2 describes: one record per protocol name, the
\* varint of the code alone for a zero-width protocol and the varint of the
\* code followed by the converted address otherwise.
RECURSIVE RecordsOf(_)
RecordsOf(q) ==
    IF q = <<>>
    THEN <<>>
    ELSE LET p == FromStr(q[1]).val
         IN  IF p \in ZeroWidth
             THEN WriteUnsignedVarint32(U16From(p)) \o RecordsOf(Tail(q))
             ELSE WriteUnsignedVarint32(U16From(p))
                      \o AddressStringToBytes(q[2], p).bytes
                      \o RecordsOf(Tail(Tail(q)))

\* C2: for every accepted path the bytes from_str returns are the in-order
\* concatenation of exactly one record per protocol segment, a zero-width
\* protocol (utp, udt, http, https) giving the varint of its code alone.
C2_OneRecordPerProtocol ==
    m.tag = "Ok" => m.bytes = RecordsOf(SegmentsOf(s))

\* C5: from_str never ends in a panic, and a path that starts with onion
\* followed by an address segment gets an error of the kind Unsupported.
C5_OnionIsUnsupported ==
    /\ m.tag # "Panic"
    /\ (/\ m.tag # "None"
        /\ s # <<>>
        /\ s[1] = "/"
        /\ Len(SegmentsOf(s)) >= 2
        /\ SegmentsOf(s)[1] = ToStr("ONION"))
           => (m.tag = "Err" /\ m.kind = "Unsupported")

\* C6: segment consumption.  In every iteration of the walk the segment at
\* the cursor is read as a protocol name (an error if it is none); a
\* zero-width protocol (utp, udt, http, https) moves the cursor by exactly
\* one segment and the walk goes on; any other protocol is an error when it
\* is the last segment, and moves the cursor by exactly two segments when
\* the walk goes on.
C6_SegmentConsumption ==
    [][(pc = "parse_loop" /\ Len(segs) > 0) =>
         LET p == FromStr(segs[1])
         IN  /\ ~p.ok => (pc' = "returned" /\ m'.tag = "Err")
             /\ (p.ok /\ p.val \in ZeroWidth) =>
                    (pc' = "parse_loop" /\ segs' = Tail(segs))
             /\ (p.ok /\ p.val \notin ZeroWidth /\ Len(segs) = 1) =>
                    (pc' = "returned" /\ m'.tag = "Err")
             /\ (p.ok /\ p.val \notin ZeroWidth /\ Len(segs) > 1
                      /\ pc' = "parse_loop") =>
                    segs' = Tail(Tail(segs))]_vars

\* C6 happens: /udp/1234/udt was walked to its end and accepted, two
\* segments for udp and one for udt.
C6_Witness ==
    /\ s = Path(<<ToStr("UDP"), <<"1", "2", "3", "4">>, ToStr("UDT")>>)
    /\ pc = "returned"
    /\ m.tag = "Ok"

C8_MustBeginWithSlash ==
    /\ (pc # "from_str" /\ s # <<>> /\ s[1] # "/") =>
           m = ErrResult("Other", "Multiaddr must begin with '/'")
    /\ m.tag = "Ok" => (s = <<>> \/ s[1] = "/")

\* C8 happens: a text of several segments without its leading '/' was
\* rejected.
C8_Witness ==
    /\ pc = "returned"
    /\ Len(s) > 8
    /\ s[1] # "/"
    /\ m.tag = "Err"

\* C8 as claimed: every text that does not start with '/', the empty text
\* included, is rejected with the error Other, and Ok is returned only for
\* a text whose first character is '/'.
C8_EveryTextWithoutSlashRejected ==
    /\ (pc = "returned" /\ (s = <<>> \/ s[1] # "/")) =>
           (m.tag = "Err" /\ m.kind = "Other")
    /\ m.tag = "Ok" => (s # <<>> /\ s[1] = "/")

(***************************************************************************)
(* Properties of Multiaddr::from_bytes, checked under SpecBytes.           *)
(***************************************************************************)
RegistryCodes == {4, 6, 17, 33, 41, 132, 301, 302, 421, 480, 443, 444}

Rejected == pc = "done" /\ m2.tag = "Err"

\* C3: from_bytes returns an error whenever the varint that leads a record
\* decodes to a 32-bit value that is none of the twelve registry codes, a
\* value above 65535 as much as an unassigned one below it.
C3_UnknownCodeRejected ==
    [][(pc = "verify_loop" /\ Len(bytes) > 0) =>
         LET c == ReadUnsignedVarint32(bytes)
         IN  (c.ok /\ (c.hi > 0 \/ c.lo \notin RegistryCodes)) => Rejected']_vars

\* C4: from_bytes never accepts a buffer that ends inside a record.  After
\* a recognised code, fewer bytes left than the fixed width, a length varint
\* that is missing or incomplete, or fewer bytes left than the length
\* declares, all end the call with an error; an iteration after which the
\* walk goes on has taken the header and exactly the whole address off the
\* front of the slice; and Ok is returned only with the slice empty, for
\* the buffer that was given.
C4_NoPartialRecord ==
    /\ [][(pc = "verify_loop" /\ Len(bytes) > 0) =>
            LET c  == ReadUnsignedVarint32(bytes)
                p  == FromCode(c.lo)
                sz == Size(p.val)
                l  == ReadUnsignedVarint32(c.rest)
            IN  (c.ok /\ p.ok) =>
                  /\ (sz.kind = "Fixed" /\ Len(c.rest) < sz.n) => Rejected'
                  /\ (sz.kind = "Variable" /\ ~l.ok) => Rejected'
                  /\ (sz.kind = "Variable" /\ l.ok
                          /\ (l.hi > 0 \/ Len(l.rest) < l.lo)) => Rejected'
                  /\ (sz.kind = "Fixed" /\ pc' = "verify_loop") =>
                         /\ Len(c.rest) >= sz.n
                         /\ bytes' = SubSeq(c.rest, sz.n + 1, Len(c.rest))
                  /\ (sz.kind = "Variable" /\ pc' = "verify_loop") =>
                         /\ Len(l.rest) >= l.lo
                         /\ bytes' = SubSeq(l.rest, l.lo + 1, Len(l.rest))]_vars
    /\ [](m2.tag = "Ok" => (pc = "done" /\ bytes = <<>> /\ m2.bytes = input))

\* C4 happens: the code of ip4 followed by two of its four address bytes
\* was rejected as ending too early.
C4_Witness ==
    /\ input = <<4, 2, 3>>
    /\ pc = "done"
    /\ m2 = ErrResult("InvalidAddress", "Unexpected end of bytes")

(***************************************************************************)
(* The error kinds, checked under SpecErr.                                 *)
(***************************************************************************)
\* The failure an error reports, read off its message.
Condition(msg) ==
    CASE msg = "Multiaddr must begin with '/'"  -> "MalformedPath"
      [] msg = "Invalid protocol"               -> "UnknownProtocol"
      [] msg = "Invalid protocol type code"     -> "UnknownCode"
      [] msg = "Address not found for protocol" -> "MissingAddress"
      [] msg \in {"Error parsing ip4 address", "Error parsing ip6 address",
                  "Error parsing multihash",
                  "Error parsing tcp/udp/sctp/dccp port number"}
                                                -> "InvalidAddressValue"
      [] msg \in {"Unexpected end of bytes", "Error reading varint"}
                                                -> "Truncated"
      [] OTHER                                  -> "Unclassified"

C10_RegistryConsistent ==
    rr.answered =>
        /\ rq.op = "tag" =>
              /\ rr.val.byname = Ok(rq.arg)
              /\ rr.val.bycode = Ok(rq.arg)
              /\ rr.val.size.kind \in {"Fixed", "Variable"}
              /\ rr.val.size = Fixed(0) <=> rq.arg \in ZeroWidth
        /\ rq.op = "from_str" =>
              IF \E p \in Protocol : ToStr(p) = rq.arg
              THEN rr.val.ok /\ ToStr(rr.val.val) = rq.arg
              ELSE rr.val = Err
        /\ rq.op = "from_code" =>
              IF \E p \in Protocol : U16From(p) = rq.arg
              THEN rr.val.ok /\ U16From(rr.val.val) = rq.arg
              ELSE rr.val = Err

\* C10 happens: https, whose code 443 is written after 480 in the tables,
\* was described and found again by name and by code.
C10_Witness ==
    /\ rq = [op |-> "tag", arg |-> "HTTPS"]
    /\ rr.answered
    /\ rr.val.code = 443
    /\ rr.val.bycode = Ok("HTTPS")

====
